---- MODULE Spec2Model ----
(***************************************************************************)
(* A model of k9s' configuration document, internal/config/config.go:      *)
(* the Config object (its K9s registry and its connection), the file       *)
(* system it loads from and saves to, and one action per exported method.  *)
(*                                                                         *)
(* A Go pointer that may be nil (to a string, a bool, Flags, K9s, Logger)   *)
(* is a sequence of length at most one: <<>> is nil, <<v>> points to v.    *)
(* A path is a sequence of one-character strings.                          *)
(* The registry (type K9s), the context records (package data) and the     *)
(* client constants are not part of config.go; they are modelled from the  *)
(* design document and carry the prefix K9s / Namespace / Context. The     *)
(* K9s record keeps the fields config.go reads and writes, under their     *)
(* names.                                                                  *)
(***************************************************************************)
EXTENDS Integers, Sequences, FiniteSets, TLC

VARIABLES
    c,      \* the Config: [K9s |-> the registry, conn |-> the connection]
    fs,     \* the file system: [files |-> path -> content, dirs |-> set of dirs]
    last,   \* the call that has just returned, Idle once its answer is taken
    reads   \* how many times ActiveView returned the manual command

vars == <<c, fs, last, reads>>

----------------------------------------------------------------------------
(* Values *)

Nil == <<>>

NoErr == "nil"
ErrNoActiveContext == "no active context"
ErrNotFound == "context not found"
ErrSettings == "settings unavailable"
ErrCurrentContext == "no current context"
ErrDir == "mkdir failed"
ErrIO == "io error"
ErrDecode == "decode error"
ErrRegistry == "registry save failed"
ErrPanic == "panic: nil pointer dereference"

DefaultNamespace == "default"
NamespaceAll == "all"
DefaultView == "po"
ScreenDumpDir == <<"d">>

MaxFavoritesNS == 2

Min(a, b) == IF a < b THEN a ELSE b

(* Paths *)
YmlExt == <<".", "y", "m", "l">>
YamlExt == <<".", "y", "a", "m", "l">>

Cfg == <<"c", "f", "g">>
CfgYml == Cfg \o YmlExt
CfgYaml == Cfg \o YamlExt
CfgTxt == Cfg \o <<".", "t", "x", "t">>
DotDir == <<"a", ".", "b", "/", "c">>
DotDirYml == DotDir \o YmlExt

AppConfigFile == <<"k", "/", "c", ".", "y", "a", "m", "l">>
ExternalFile == <<"x", ".", "y", "a", "m", "l">>
BrokenFile == <<"b", ".", "y", "a", "m", "l">>
MissingFile == <<"m", ".", "y", "a", "m", "l">>

\* filepath.Ext: the suffix from the final dot of the final element
RECURSIVE ExtFrom(_, _)
ExtFrom(path, i) ==
    IF i = 0 \/ path[i] = "/" THEN <<>>
    ELSE IF path[i] = "." THEN SubSeq(path, i, Len(path))
    ELSE ExtFrom(path, i - 1)

Ext(path) == ExtFrom(path, Len(path))

\* filepath.Dir, for the paths above: what precedes the final separator
RECURSIVE DirFrom(_, _)
DirFrom(path, i) ==
    IF i = 0 THEN <<".">>
    ELSE IF path[i] = "/" THEN SubSeq(path, 1, i - 1)
    ELSE DirFrom(path, i - 1)

Dir(path) == DirFrom(path, Len(path))

\* strings.TrimSuffix
TrimSuffix(s, suffix) ==
    IF Len(suffix) <= Len(s)
       /\ SubSeq(s, Len(s) - Len(suffix) + 1, Len(s)) = suffix
    THEN SubSeq(s, 1, Len(s) - Len(suffix))
    ELSE s

----------------------------------------------------------------------------
(* Helpers of config.go *)

\* isSet without the length test
isSetNotNil(s) == s # Nil

\* config.go:288  s != nil && len(*s) > 0
isSet(s) == s # Nil /\ s[1] # ""

\* isYamlFile taking a file without extension for a YAML file
isYamlFileOrBare(file) ==
    Ext(file) = YmlExt \/ Ext(file) = YamlExt \/ Ext(file) = <<>>

\* config.go:292
isYamlFile(file) == Ext(file) = YmlExt \/ Ext(file) = YamlExt

\* config.go:268  denied: os.Stat fails, and not because the file is missing
YamlExtension(path, files, denied) ==
    IF ~isYamlFile(path)
    THEN path
    ELSE LET stem == TrimSuffix(path, Ext(path))
             result == stem \o YmlExt
         IN IF ~denied /\ result \notin DOMAIN files
            THEN stem \o YamlExt
            ELSE result

\* flags: b != nil && *b
IsBoolSet(b) == b # Nil /\ b[1]

----------------------------------------------------------------------------
(* The registry, type K9s, and the context records *)

NewContext ==
    [Namespace |-> [Active |-> DefaultNamespace, Favorites |-> <<>>],
     View |-> [Active |-> DefaultView]]

NewK9s(manual) ==
    [contexts |-> <<>>,
     activeContextName |-> "",
     manualCommand |-> manual,
     Logger |-> Nil]

\* Looks up or lazily creates the record of n and points the registry at it.
K9sActivateContext(k, n) ==
    IF n = ""
    THEN [k |-> k, err |-> ErrNotFound]
    ELSE LET cs == IF n \in DOMAIN k.contexts
                   THEN k.contexts
                   ELSE (n :> NewContext) @@ k.contexts
         IN [k |-> [k EXCEPT !.contexts = cs, !.activeContextName = n],
             err |-> NoErr]

\* The record the active context pointer names.
K9sActiveContext(k) ==
    IF k.activeContextName = "" \/ k.activeContextName \notin DOMAIN k.contexts
    THEN [ct |-> Nil, err |-> ErrNoActiveContext]
    ELSE [ct |-> <<k.contexts[k.activeContextName]>>, err |-> NoErr]

K9sActiveContextNamespace(k) ==
    LET a == K9sActiveContext(k)
    IN IF a.err # NoErr
       THEN [ns |-> "", err |-> a.err]
       ELSE [ns |-> a.ct[1].Namespace.Active, err |-> NoErr]

\* Clears the pointer, keeps the records.
K9sReset(k) == [k EXCEPT !.activeContextName = ""]

\* Namespace.SetActive: stores ns and caps the favorites.
NamespaceSetActive(n, ns, setErr) ==
    IF setErr # NoErr
    THEN [n |-> n, err |-> setErr]
    ELSE [n |-> [Active |-> ns,
                 Favorites |-> SubSeq(n.Favorites, 1,
                                      Min(Len(n.Favorites), MaxFavoritesNS))],
          err |-> NoErr]

\* K9s.Refine adding the loaded favorites to those in memory
K9sRefineAppend(k, k1) ==
    [k EXCEPT
        !.contexts = [n \in DOMAIN k.contexts \cup DOMAIN k1.contexts |->
                         IF n \in DOMAIN k1.contexts
                         THEN IF n \in DOMAIN k.contexts
                              THEN [k1.contexts[n] EXCEPT
                                       !.Namespace.Favorites =
                                           k.contexts[n].Namespace.Favorites \o @]
                              ELSE k1.contexts[n]
                         ELSE k.contexts[n]],
        !.Logger = IF k1.Logger # Nil THEN k1.Logger ELSE k.Logger]

\* K9s.Refine: the loaded registry's values win where the file has them;
\* the pointer and the manual command are not part of a file.
K9sRefine(k, k1) ==
    [k EXCEPT
        !.contexts = [n \in DOMAIN k.contexts \cup DOMAIN k1.contexts |->
                         IF n \in DOMAIN k1.contexts
                         THEN k1.contexts[n]
                         ELSE k.contexts[n]],
        !.Logger = IF k1.Logger # Nil THEN k1.Logger ELSE k.Logger]

NewLogger == <<"default">>

RECURSIVE Existing(_, _)
Existing(favorites, namespaces) ==
    IF favorites = <<>> THEN <<>>
    ELSE IF Head(favorites) \in namespaces
    THEN <<Head(favorites)>> \o Existing(Tail(favorites), namespaces)
    ELSE Existing(Tail(favorites), namespaces)

\* Context.Validate: drops the favorites the connection does not know;
\* without a connection, or with one that cannot be reached, does nothing.
ContextValidate(ct, conn) ==
    IF conn = Nil \/ ~conn[1].up
    THEN ct
    ELSE [ct EXCEPT !.Namespace.Favorites = Existing(@, conn[1].namespaces)]

\* K9s.Validate: validates the active context, if there is one.
K9sValidate(k, conn) ==
    IF k.activeContextName = "" \/ k.activeContextName \notin DOMAIN k.contexts
    THEN k
    ELSE [k EXCEPT !.contexts[k.activeContextName] = ContextValidate(@, conn)]

\* K9s.Save: the registry's own save, which may fail.
K9sSave(k, regErr) == regErr

\* data.EnsureDirPath: creates the directory, or fails and creates nothing.
EnsureDirPath(dirs, dir, dirErr) ==
    IF dirErr # NoErr
    THEN [dirs |-> dirs, err |-> dirErr]
    ELSE [dirs |-> dirs \cup {dir}, err |-> NoErr]

----------------------------------------------------------------------------
(* Config's methods, as functions of the Config and their inputs *)

\* config.go:208
ActiveContextName(cfg) == cfg.K9s.activeContextName

\* config.go:125
CurrentContext(cfg) == K9sActiveContext(cfg.K9s)

\* SetCurrentContext asking for the active context instead of activating n
SetCurrentContextNoSwitch(cfg, n) ==
    LET a == K9sActiveContext(cfg.K9s)
    IN IF a.err # NoErr
       THEN [cfg |-> cfg, ct |-> Nil,
             err |-> <<"set current context failed", n, a.err>>]
       ELSE [cfg |-> cfg, ct |-> a.ct, err |-> NoErr]

\* config.go:115  the error of a failed activation is wrapped
SetCurrentContext(cfg, n) ==
    LET a == K9sActivateContext(cfg.K9s, n)
    IN IF a.err # NoErr
       THEN [cfg |-> cfg, ct |-> Nil,
             err |-> <<"set current context failed", n, a.err>>]
       ELSE [cfg |-> [cfg EXCEPT !.K9s = a.k],
             ct |-> K9sActiveContext(a.k).ct, err |-> NoErr]

\* Reset starting a new registry
ResetNewRegistry(cfg) ==
    [cfg EXCEPT !.K9s = NewK9s(cfg.K9s.manualCommand)]

\* config.go:111
Reset(cfg) == [cfg EXCEPT !.K9s = K9sReset(cfg.K9s)]

\* ActiveNamespace as its comment has it: the empty namespace if none found
ActiveNamespaceEmpty(cfg) == K9sActiveContextNamespace(cfg.K9s).ns

\* config.go:131
ActiveNamespace(cfg) ==
    LET r == K9sActiveContextNamespace(cfg.K9s)
    IN IF r.err # NoErr THEN DefaultNamespace ELSE r.ns

\* SetActiveNamespace keeping quiet about a missing context, as SetActiveView
SetActiveNamespaceQuiet(cfg, ns, setErr) ==
    LET a == K9sActiveContext(cfg.K9s)
    IN IF a.err # NoErr
       THEN [cfg |-> cfg, err |-> NoErr]
       ELSE LET s == NamespaceSetActive(a.ct[1].Namespace, ns, setErr)
                n == cfg.K9s.activeContextName
            IN [cfg |-> [cfg EXCEPT !.K9s.contexts[n].Namespace = s.n],
                err |-> s.err]

\* config.go:161
SetActiveNamespace(cfg, ns, setErr) ==
    LET a == K9sActiveContext(cfg.K9s)
    IN IF a.err # NoErr
       THEN [cfg |-> cfg, err |-> a.err]
       ELSE LET s == NamespaceSetActive(a.ct[1].Namespace, ns, setErr)
                n == cfg.K9s.activeContextName
            IN [cfg |-> [cfg EXCEPT !.K9s.contexts[n].Namespace = s.n],
                err |-> s.err]

\* ResolveNamespace with the persisted namespace tried before the flag
ResolveNamespacePersistedFirst(cfg, flags, k9sFlags) ==
    LET p == K9sActiveContextNamespace(cfg.K9s)
        r == IF k9sFlags # Nil /\ IsBoolSet(k9sFlags[1].AllNamespaces)
             THEN [ns |-> NamespaceAll, err |-> NoErr]
             ELSE IF p.err = NoErr /\ p.ns # ""
             THEN p
             ELSE IF isSet(flags.Namespace)
             THEN [ns |-> flags.Namespace[1], err |-> NoErr]
             ELSE p
    IN IF r.err # NoErr THEN r
       ELSE IF r.ns = "" THEN [ns |-> DefaultNamespace, err |-> NoErr]
       ELSE r

\* ResolveNamespace with the namespace flag tried before all-namespaces
ResolveNamespaceFlagFirst(cfg, flags, k9sFlags) ==
    LET r == IF isSet(flags.Namespace)
             THEN [ns |-> flags.Namespace[1], err |-> NoErr]
             ELSE IF k9sFlags # Nil /\ IsBoolSet(k9sFlags[1].AllNamespaces)
             THEN [ns |-> NamespaceAll, err |-> NoErr]
             ELSE K9sActiveContextNamespace(cfg.K9s)
    IN IF r.err # NoErr THEN r
       ELSE IF r.ns = "" THEN [ns |-> DefaultNamespace, err |-> NoErr]
       ELSE r

\* ResolveNamespace without the substitution of the default
ResolveNamespaceKeepEmpty(cfg, flags, k9sFlags) ==
    IF k9sFlags # Nil /\ IsBoolSet(k9sFlags[1].AllNamespaces)
    THEN [ns |-> NamespaceAll, err |-> NoErr]
    ELSE IF isSet(flags.Namespace)
    THEN [ns |-> flags.Namespace[1], err |-> NoErr]
    ELSE K9sActiveContextNamespace(cfg.K9s)

\* config.go:87-102  the namespace Refine commits
ResolveNamespace(cfg, flags, k9sFlags) ==
    LET r == IF k9sFlags # Nil /\ IsBoolSet(k9sFlags[1].AllNamespaces)
             THEN [ns |-> NamespaceAll, err |-> NoErr]
             ELSE IF isSet(flags.Namespace)
             THEN [ns |-> flags.Namespace[1], err |-> NoErr]
             ELSE K9sActiveContextNamespace(cfg.K9s)
    IN IF r.err # NoErr THEN r
       ELSE IF r.ns = "" THEN [ns |-> DefaultNamespace, err |-> NoErr]
       ELSE r

\* config.go:70-84  the context Refine activates
ResolveContext(flags, conf) ==
    IF isSet(flags.Context)
    THEN [name |-> flags.Context[1], err |-> NoErr, consulted |-> FALSE]
    ELSE [name |-> conf.name, err |-> conf.err, consulted |-> TRUE]

\* Refine ensuring the screen dump directory before it commits the namespace
RefineDirFirst(cfg, dirs, flags, k9sFlags, conf, env) ==
    LET n == ResolveContext(flags, conf)
        a == K9sActivateContext(cfg.K9s, n.name)
        c1 == [cfg EXCEPT !.K9s = a.k]
        r == ResolveNamespace(c1, flags, k9sFlags)
        d == EnsureDirPath(dirs, ScreenDumpDir, env.dirErr)
        s == SetActiveNamespace(c1, r.ns, env.setErr)
    IN IF n.err # NoErr
       THEN [cfg |-> cfg, dirs |-> dirs, err |-> n.err,
             steps |-> <<>>, consulted |-> n.consulted]
       ELSE IF a.err # NoErr
       THEN [cfg |-> cfg, dirs |-> dirs, err |-> a.err,
             steps |-> <<"resolve">>, consulted |-> n.consulted]
       ELSE IF r.err # NoErr
       THEN [cfg |-> c1, dirs |-> dirs, err |-> r.err,
             steps |-> <<"resolve", "activate">>, consulted |-> n.consulted]
       ELSE IF d.err # NoErr
       THEN [cfg |-> c1, dirs |-> dirs, err |-> d.err,
             steps |-> <<"resolve", "activate", "namespace">>,
             consulted |-> n.consulted]
       ELSE [cfg |-> s.cfg, dirs |-> d.dirs, err |-> s.err,
             steps |-> IF s.err # NoErr
                       THEN <<"resolve", "activate", "namespace">>
                       ELSE <<"resolve", "activate", "namespace", "commit",
                              "mkdir">>,
             consulted |-> n.consulted]

\* config.go:70  conf is what cfg.CurrentContextName() answers,
\* env the outcome of the settings lookup and of the mkdir
Refine(cfg, dirs, flags, k9sFlags, conf, env) ==
    LET n == ResolveContext(flags, conf)
        a == K9sActivateContext(cfg.K9s, n.name)
        c1 == [cfg EXCEPT !.K9s = a.k]
        r == ResolveNamespace(c1, flags, k9sFlags)
        s == SetActiveNamespace(c1, r.ns, env.setErr)
        d == EnsureDirPath(dirs, ScreenDumpDir, env.dirErr)
    IN IF n.err # NoErr
       THEN [cfg |-> cfg, dirs |-> dirs, err |-> n.err,
             steps |-> <<>>, consulted |-> n.consulted]
       ELSE IF a.err # NoErr
       THEN [cfg |-> cfg, dirs |-> dirs, err |-> a.err,
             steps |-> <<"resolve">>, consulted |-> n.consulted]
       ELSE IF r.err # NoErr
       THEN [cfg |-> c1, dirs |-> dirs, err |-> r.err,
             steps |-> <<"resolve", "activate">>, consulted |-> n.consulted]
       ELSE IF s.err # NoErr
       THEN [cfg |-> s.cfg, dirs |-> dirs, err |-> s.err,
             steps |-> <<"resolve", "activate", "namespace">>,
             consulted |-> n.consulted]
       ELSE [cfg |-> s.cfg, dirs |-> d.dirs, err |-> d.err,
             steps |-> IF d.err # NoErr
                       THEN <<"resolve", "activate", "namespace", "commit">>
                       ELSE <<"resolve", "activate", "namespace", "commit",
                              "mkdir">>,
             consulted |-> n.consulted]

\* ActiveView without the reset of the manual command
ActiveViewKeepCommand(cfg) ==
    LET a == K9sActiveContext(cfg.K9s)
        m == cfg.K9s.manualCommand
    IN IF a.err # NoErr
       THEN [cfg |-> cfg, ret |-> DefaultView, manual |-> FALSE]
       ELSE IF m # Nil /\ m[1] # ""
       THEN [cfg |-> cfg, ret |-> m[1], manual |-> TRUE]
       ELSE [cfg |-> cfg, ret |-> a.ct[1].View.Active, manual |-> FALSE]

\* ActiveView taking the manual command before it asks for the context
ActiveViewCommandFirst(cfg) ==
    LET a == K9sActiveContext(cfg.K9s)
        m == cfg.K9s.manualCommand
        pending == m # Nil /\ m[1] # ""
        c1 == IF pending THEN [cfg EXCEPT !.K9s.manualCommand = <<"">>]
              ELSE cfg
    IN IF a.err # NoErr
       THEN [cfg |-> c1, ret |-> DefaultView, manual |-> FALSE]
       ELSE IF pending
       THEN [cfg |-> c1, ret |-> m[1], manual |-> TRUE]
       ELSE [cfg |-> cfg, ret |-> a.ct[1].View.Active, manual |-> FALSE]

\* config.go:171
ActiveView(cfg) ==
    LET a == K9sActiveContext(cfg.K9s)
        m == cfg.K9s.manualCommand
    IN IF a.err # NoErr
       THEN [cfg |-> cfg, ret |-> DefaultView, manual |-> FALSE]
       ELSE IF m # Nil /\ m[1] # ""
       THEN [cfg |-> [cfg EXCEPT !.K9s.manualCommand = <<"">>],
             ret |-> m[1], manual |-> TRUE]
       ELSE [cfg |-> cfg, ret |-> a.ct[1].View.Active, manual |-> FALSE]

\* SetActiveView storing the view in the record of every context
SetActiveViewEverywhere(cfg, view) ==
    IF K9sActiveContext(cfg.K9s).err = NoErr
    THEN [cfg EXCEPT !.K9s.contexts =
                         [n \in DOMAIN @ |-> [@[n] EXCEPT !.View.Active = view]]]
    ELSE cfg

\* config.go:189
SetActiveView(cfg, view) ==
    IF K9sActiveContext(cfg.K9s).err = NoErr
    THEN [cfg EXCEPT !.K9s.contexts[cfg.K9s.activeContextName].View.Active = view]
    ELSE cfg

\* SetConnection storing the connection only when there is one
SetConnectionIfAny(cfg, conn) ==
    IF conn # Nil THEN [cfg EXCEPT !.conn = conn] ELSE cfg

\* config.go:201  resetConnection changes none of the fields modelled here
SetConnection(cfg, conn) == [cfg EXCEPT !.conn = conn]

\* config.go:255
Validate(cfg) == [cfg EXCEPT !.K9s = K9sValidate(cfg.K9s, cfg.conn)]

\* config.go:142  without an active context there is nothing to validate
ValidateFavorites(cfg) ==
    LET a == K9sActiveContext(cfg.K9s)
    IN IF a.err # NoErr
       THEN cfg
       ELSE [cfg EXCEPT !.K9s.contexts[cfg.K9s.activeContextName] =
                            ContextValidate(a.ct[1], cfg.conn)]

\* config.go:151  a nil slice without an active context
FavNamespaces(cfg) ==
    LET a == K9sActiveContext(cfg.K9s)
    IN IF a.err # NoErr THEN <<>> ELSE a.ct[1].Namespace.Favorites

\* config.go:260  the cluster name is read of ct in the branch taken when
\* ActiveContext failed: reading a field of a nil ct is a nil pointer
\* dereference, which ends the program.
Dump(cfg) ==
    LET a == K9sActiveContext(cfg.K9s)
    IN IF a.err # NoErr
       THEN [logged |-> a.ct # Nil, panic |-> a.ct = Nil]
       ELSE [logged |-> FALSE, panic |-> FALSE]

\* yaml.Marshal of the Config: the exported fields of K9s. conn, settings,
\* activeContextName and manualCommand are unexported and never written.
Marshal(cfg) ==
    [kind |-> "yaml",
     K9s |-> <<[contexts |-> cfg.K9s.contexts, Logger |-> cfg.K9s.Logger]>>]

\* yaml.Unmarshal into a zero Config: the unexported fields keep their zero
\* values; bytes that are no document do not decode.
Unmarshal(bytes) ==
    IF bytes.kind # "yaml"
    THEN [cfg |-> [K9s |-> Nil], err |-> ErrDecode]
    ELSE [cfg |-> [K9s |-> IF bytes.K9s = Nil THEN Nil
                           ELSE <<[contexts |-> bytes.K9s[1].contexts,
                                   activeContextName |-> "",
                                   manualCommand |-> Nil,
                                   Logger |-> bytes.K9s[1].Logger]>>],
          err |-> NoErr]

\* Load giving the document its default logger before it looks at the
\* decoding error
LoadLoggerFirst(cfg, files, path, readErr) ==
    IF path \notin DOMAIN files \/ readErr # NoErr
    THEN [cfg |-> cfg, err |-> ErrIO]
    ELSE LET u == Unmarshal(files[path])
             k0 == IF cfg.K9s.Logger = Nil
                   THEN [cfg.K9s EXCEPT !.Logger = NewLogger]
                   ELSE cfg.K9s
             k1 == IF u.cfg.K9s # Nil
                   THEN K9sRefine(k0, u.cfg.K9s[1])
                   ELSE k0
         IN IF u.err # NoErr
            THEN [cfg |-> [cfg EXCEPT !.K9s = k0], err |-> u.err]
            ELSE [cfg |-> [cfg EXCEPT !.K9s = k1], err |-> NoErr]

\* Load putting the loaded registry in the place of the live one
LoadReplace(cfg, files, path, readErr) ==
    IF path \notin DOMAIN files \/ readErr # NoErr
    THEN [cfg |-> cfg, err |-> ErrIO]
    ELSE LET u == Unmarshal(files[path])
             k1 == IF u.cfg.K9s # Nil THEN u.cfg.K9s[1] ELSE cfg.K9s
             k2 == IF k1.Logger = Nil
                   THEN [k1 EXCEPT !.Logger = NewLogger]
                   ELSE k1
         IN IF u.err # NoErr
            THEN [cfg |-> cfg, err |-> u.err]
            ELSE [cfg |-> [cfg EXCEPT !.K9s = k2], err |-> NoErr]

\* config.go:213  readErr: the file is there and cannot be read
Load(cfg, files, path, readErr) ==
    IF path \notin DOMAIN files \/ readErr # NoErr
    THEN [cfg |-> cfg, err |-> ErrIO]
    ELSE LET u == Unmarshal(files[path])
             k1 == IF u.cfg.K9s # Nil
                   THEN K9sRefine(cfg.K9s, u.cfg.K9s[1])
                   ELSE cfg.K9s
             k2 == IF k1.Logger = Nil
                   THEN [k1 EXCEPT !.Logger = NewLogger]
                   ELSE k1
         IN IF u.err # NoErr
            THEN [cfg |-> cfg, err |-> u.err]
            ELSE [cfg |-> [cfg EXCEPT !.K9s = k2], err |-> NoErr]

\* config.go:242  env.dirErr: the mkdir fails; env.writeErr: the write fails
\* before the file is opened ("open") or after it was truncated ("write")
SaveFile(cfg, fsys, path, env) ==
    LET d == EnsureDirPath(fsys.dirs, Dir(path), env.dirErr)
    IN IF d.err # NoErr
       THEN [fs |-> fsys, err |-> d.err, steps |-> <<>>]
       ELSE IF env.writeErr = "open"
       THEN [fs |-> [fsys EXCEPT !.dirs = d.dirs], err |-> ErrIO,
             steps |-> <<"mkdir">>]
       ELSE IF env.writeErr = "write"
       THEN [fs |-> [dirs |-> d.dirs,
                     files |-> (path :> [kind |-> "partial"]) @@ fsys.files],
             err |-> ErrIO, steps |-> <<"mkdir">>]
       ELSE [fs |-> [dirs |-> d.dirs,
                     files |-> (path :> Marshal(cfg)) @@ fsys.files],
             err |-> NoErr, steps |-> <<"mkdir", "write">>]

\* Save writing the configuration file before the registry is saved
SaveFileFirst(cfg, fsys, env) ==
    LET v == Validate(cfg)
        f == SaveFile(v, fsys, AppConfigFile, env)
        r == K9sSave(v.K9s, env.regErr)
    IN IF f.err # NoErr
       THEN [cfg |-> v, fs |-> f.fs, err |-> f.err,
             steps |-> <<"validate">> \o f.steps]
       ELSE [cfg |-> v, fs |-> f.fs, err |-> r,
             steps |-> IF r # NoErr
                       THEN <<"validate">> \o f.steps
                       ELSE <<"validate">> \o f.steps \o <<"registry">>]

\* config.go:233
Save(cfg, fsys, env) ==
    LET v == Validate(cfg)
        r == K9sSave(v.K9s, env.regErr)
        f == SaveFile(v, fsys, AppConfigFile, env)
    IN IF r # NoErr
       THEN [cfg |-> v, fs |-> fsys, err |-> r, steps |-> <<"validate">>]
       ELSE [cfg |-> v, fs |-> f.fs, err |-> f.err,
             steps |-> <<"validate", "registry">> \o f.steps]

----------------------------------------------------------------------------
(* The inputs the calls are made with *)

\* the contexts of the kubeconfig, and how many of them the calls name
AllContexts == <<"dev", "prod", "test", "qa">>
NumContexts == 2
CtxNames == {AllContexts[i] : i \in 1..NumContexts}

FlagContexts == {Nil, <<"">>, <<"prod">>}
FlagNamespaces == {Nil, <<"">>, <<"prod">>}
FlagSets == [Context : FlagContexts, Namespace : FlagNamespaces]
K9sFlagSets ==
    {Nil} \cup {<<[AllNamespaces |-> b]>> : b \in {Nil, <<TRUE>>, <<FALSE>>}}

\* what the connection's CurrentContextName() answers
CurrentContextNames ==
    {[name |-> "dev", err |-> NoErr],
     [name |-> "", err |-> NoErr],
     [name |-> "", err |-> ErrCurrentContext]}

Envs == [setErr : {NoErr, ErrSettings}, dirErr : {NoErr, ErrDir}]

SetNamespaces == {"", "staging"}
ManualCommands == {<<"">>, <<"dp">>}
Views == {"svc"}

SaveEnvs ==
    [regErr : {NoErr, ErrRegistry}, dirErr : {NoErr, ErrDir},
     writeErr : {NoErr, "open", "write"}]

LoadPaths == {AppConfigFile, ExternalFile, BrokenFile, MissingFile, CfgYaml}

YamlPaths == {Cfg, CfgYml, CfgYaml, CfgTxt, DotDir, DotDirYml}
YamlFiles == {Cfg, CfgYml, CfgYaml, DotDirYml}

\* what is on disk when the program starts: a configuration written by
\* hand, a file that is no YAML document, a YAML document without a k9s key
ExternalDoc ==
    [kind |-> "yaml",
     K9s |-> <<[contexts |->
                  ("prod" :> [Namespace |->
                                [Active |-> "",
                                 Favorites |-> <<"prod", "gone", "staging">>],
                              View |-> [Active |-> "svc"]]),
                Logger |-> <<"custom">>]>>]

InitialFiles ==
    (ExternalFile :> ExternalDoc)
    @@ (BrokenFile :> [kind |-> "garbage"])
    @@ (CfgYaml :> [kind |-> "yaml", K9s |-> Nil])

\* the connections SetConnection is given: none, one to a cluster with the
\* namespaces prod and staging, one to a cluster that does not answer
Connections ==
    {Nil,
     <<[up |-> TRUE, namespaces |-> {"prod", "staging"}]>>,
     <<[up |-> FALSE, namespaces |-> {}]>>}

\* ... those of them that are none or answer
LiveConnections == {conn \in Connections : conn = Nil \/ conn[1].up}

NoAux == [none |-> TRUE]

\* The record of a call: what it was given, what it answered, and the
\* document and file system it started from.
Called(op, arg, ret, err, aux) ==
    [op |-> op, arg |-> arg, ret |-> ret, err |-> err, aux |-> aux,
     before |-> [c |-> c, fs |-> fs]]

Idle == [op |-> "idle"]

----------------------------------------------------------------------------
(* The state after NewConfig *)

Init ==
    /\ c = [K9s |-> NewK9s(Nil), conn |-> Nil]
    /\ fs = [files |-> InitialFiles, dirs |-> {}]
    /\ last = Idle
    /\ reads = 0

\* ... and with a command given on the command line
InitCommand ==
    /\ \E m \in ManualCommands : c = [K9s |-> NewK9s(m), conn |-> Nil]
    /\ fs = [files |-> InitialFiles, dirs |-> {}]
    /\ last = Idle
    /\ reads = 0

----------------------------------------------------------------------------
(* One action per call. Calls do not overlap (the document is used from   *)
(* one thread): a call starts once the answer of the one before is taken. *)

Return ==
    /\ last.op # "idle"
    /\ ~(last.op = "Dump" /\ last.err = ErrPanic)
    /\ last' = Idle
    /\ UNCHANGED <<c, fs, reads>>

CallRefine(flags, k9sFlags, conf, env) ==
    LET r == Refine(c, fs.dirs, flags, k9sFlags, conf, env)
    IN /\ last.op = "idle"
       /\ c' = r.cfg
       /\ fs' = [fs EXCEPT !.dirs = r.dirs]
       /\ last' = Called("Refine",
                         [flags |-> flags, k9sFlags |-> k9sFlags,
                          conf |-> IF r.consulted THEN <<conf>> ELSE Nil],
                         Nil, r.err,
                         [steps |-> r.steps, consulted |-> r.consulted])
       /\ UNCHANGED reads

CallSetCurrentContext(n) ==
    LET r == SetCurrentContext(c, n)
    IN /\ last.op = "idle"
       /\ c' = r.cfg
       /\ last' = Called("SetCurrentContext", n, r.ct, r.err, NoAux)
       /\ UNCHANGED <<fs, reads>>

CallCurrentContext ==
    LET r == CurrentContext(c)
    IN /\ last.op = "idle"
       /\ last' = Called("CurrentContext", Nil, r.ct, r.err, NoAux)
       /\ UNCHANGED <<c, fs, reads>>

CallActiveContextName ==
    /\ last.op = "idle"
    /\ last' = Called("ActiveContextName", Nil, ActiveContextName(c), NoErr, NoAux)
    /\ UNCHANGED <<c, fs, reads>>

CallReset ==
    /\ last.op = "idle"
    /\ c' = Reset(c)
    /\ last' = Called("Reset", Nil, Nil, NoErr, NoAux)
    /\ UNCHANGED <<fs, reads>>

CallActiveNamespace ==
    /\ last.op = "idle"
    /\ last' = Called("ActiveNamespace", Nil, ActiveNamespace(c), NoErr, NoAux)
    /\ UNCHANGED <<c, fs, reads>>

CallSetActiveNamespace(ns, setErr) ==
    LET r == SetActiveNamespace(c, ns, setErr)
    IN /\ last.op = "idle"
       /\ c' = r.cfg
       /\ last' = Called("SetActiveNamespace", ns, Nil, r.err, NoAux)
       /\ UNCHANGED <<fs, reads>>

CallActiveView ==
    LET r == ActiveView(c)
    IN /\ last.op = "idle"
       /\ c' = r.cfg
       /\ reads' = IF r.manual THEN reads + 1 ELSE reads
       /\ last' = Called("ActiveView", Nil, r.ret, NoErr, [manual |-> r.manual])
       /\ UNCHANGED fs

CallSetActiveView(view) ==
    /\ last.op = "idle"
    /\ c' = SetActiveView(c, view)
    /\ last' = Called("SetActiveView", view, Nil, NoErr, NoAux)
    /\ UNCHANGED <<fs, reads>>

CallSetConnection(conn) ==
    /\ last.op = "idle"
    /\ c' = SetConnection(c, conn)
    /\ last' = Called("SetConnection", conn, Nil, NoErr, NoAux)
    /\ UNCHANGED <<fs, reads>>

CallValidateFavorites ==
    /\ last.op = "idle"
    /\ c' = ValidateFavorites(c)
    /\ last' = Called("ValidateFavorites", Nil, Nil, NoErr, NoAux)
    /\ UNCHANGED <<fs, reads>>

CallFavNamespaces ==
    /\ last.op = "idle"
    /\ last' = Called("FavNamespaces", Nil, FavNamespaces(c), NoErr, NoAux)
    /\ UNCHANGED <<c, fs, reads>>

\* A panic is not recovered from: no call follows it.
CallDump ==
    LET r == Dump(c)
    IN /\ last.op = "idle"
       /\ last' = Called("Dump", Nil, Nil,
                         IF r.panic THEN ErrPanic ELSE NoErr,
                         [logged |-> r.logged])
       /\ UNCHANGED <<c, fs, reads>>

CallLoad(path, readErr) ==
    LET r == Load(c, fs.files, path, readErr)
    IN /\ last.op = "idle"
       /\ c' = r.cfg
       /\ last' = Called("Load", path, Nil, r.err, NoAux)
       /\ UNCHANGED <<fs, reads>>

CallSave(env) ==
    LET r == Save(c, fs, env)
    IN /\ last.op = "idle"
       /\ c' = r.cfg
       /\ fs' = r.fs
       /\ last' = Called("Save", AppConfigFile, Nil, r.err, [steps |-> r.steps])
       /\ UNCHANGED reads

CallSaveFile(path, env) ==
    LET r == SaveFile(c, fs, path, env)
    IN /\ last.op = "idle"
       /\ fs' = r.fs
       /\ last' = Called("SaveFile", path, Nil, r.err, [steps |-> r.steps])
       /\ UNCHANGED <<c, reads>>

CallYamlExtension(path, denied) ==
    /\ last.op = "idle"
    /\ last' = Called("YamlExtension", path,
                      YamlExtension(path, fs.files, denied), NoErr,
                      [denied |-> denied])
    /\ UNCHANGED <<c, fs, reads>>

\* The user, or another program, creates or removes a file.
Touch(path) ==
    /\ last.op = "idle"
    /\ path \notin DOMAIN fs.files
    /\ fs' = [fs EXCEPT !.files = (path :> [kind |-> "garbage"]) @@ @]
    /\ UNCHANGED <<c, last, reads>>

Remove(path) ==
    /\ last.op = "idle"
    /\ path \in DOMAIN fs.files
    /\ fs' = [fs EXCEPT !.files = [q \in DOMAIN @ \ {path} |-> @[q]]]
    /\ UNCHANGED <<c, last, reads>>

----------------------------------------------------------------------------
(* The session: the flags are reconciled, contexts and namespaces switched *)

Next ==
    \/ \E flags \in FlagSets, k9sFlags \in K9sFlagSets,
          conf \in CurrentContextNames, env \in Envs :
          CallRefine(flags, k9sFlags, conf, env)
    \/ \E n \in CtxNames \cup {""} : CallSetCurrentContext(n)
    \/ CallCurrentContext
    \/ CallActiveContextName
    \/ CallReset
    \/ CallActiveNamespace
    \/ \E ns \in SetNamespaces, e \in {NoErr, ErrSettings} :
          CallSetActiveNamespace(ns, e)
    \/ Return

Spec == Init /\ [][Next]_vars

----------------------------------------------------------------------------
(* The views: the command of the command line and the stored views *)

NextView ==
    \/ CallActiveView
    \/ \E v \in Views : CallSetActiveView(v)
    \/ \E n \in CtxNames : CallSetCurrentContext(n)
    \/ CallReset
    \/ Return

SpecView == (Init \/ InitCommand) /\ [][NextView]_vars

----------------------------------------------------------------------------
(* The store: the document is saved and loaded *)

NextStore ==
    \/ \E path \in LoadPaths, e \in {NoErr, ErrIO} : CallLoad(path, e)
    \/ \E env \in SaveEnvs : CallSave(env)
    \/ \E env \in SaveEnvs : CallSaveFile(AppConfigFile, env)
    \/ \E n \in CtxNames : CallSetCurrentContext(n)
    \/ CallSetActiveNamespace("staging", NoErr)
    \/ Return

SpecStore == Init /\ [][NextStore]_vars

----------------------------------------------------------------------------
(* The extension of a YAML file, over the files that come and go *)

NextYaml ==
    \/ \E path \in YamlPaths, denied \in BOOLEAN :
          CallYamlExtension(path, denied)
    \/ \E path \in YamlFiles : Touch(path)
    \/ \E path \in YamlFiles : Remove(path)
    \/ Return

SpecYaml == Init /\ [][NextYaml]_vars

----------------------------------------------------------------------------
(* What the claims read of a state *)

Contexts == c.K9s.contexts
Active == c.K9s.activeContextName
HasActive == Active # "" /\ Active \in DOMAIN Contexts
StoredNamespace == Contexts[Active].Namespace.Active

ContextsBefore == last.before.c.K9s.contexts
ActiveBefore == last.before.c.K9s.activeContextName

Refined == last.op = "Refine" /\ last.err = NoErr
ContextFlag == last.arg.flags.Context
NamespaceFlag == last.arg.flags.Namespace
ContextFlagGiven == ContextFlag # Nil /\ ContextFlag[1] # ""
NamespaceFlagGiven == NamespaceFlag # Nil /\ NamespaceFlag[1] # ""
AllNamespacesAsked ==
    /\ last.arg.k9sFlags # Nil
    /\ last.arg.k9sFlags[1].AllNamespaces = <<TRUE>>

----------------------------------------------------------------------------
(* Flag reconciliation *)

\* C1: after a successful Refine with the all-namespaces flag not set and a
\* non-empty namespace flag f, the active context's active namespace is f,
\* whatever was persisted; with an empty context flag the activated context
\* is the connection's current context.
C1_NamespaceFlagBeatsPersisted ==
    (Refined /\ ~AllNamespacesAsked /\ NamespaceFlagGiven)
    => /\ HasActive
       /\ StoredNamespace = NamespaceFlag[1]
       /\ ~ContextFlagGiven => Active = last.arg.conf[1].name

\* the scenario of the design document: no context flag, namespace flag
\* "prod", current context "dev" with "staging" persisted
C1_Witness ==
    /\ Refined
    /\ ContextFlag = <<"">>
    /\ NamespaceFlag = <<"prod">>
    /\ last.arg.k9sFlags = <<[AllNamespaces |-> <<FALSE>>]>>
    /\ last.arg.conf = <<[name |-> "dev", err |-> NoErr]>>
    /\ "dev" \in DOMAIN ContextsBefore
    /\ ContextsBefore["dev"].Namespace.Active = "staging"
    /\ Active = "dev"
    /\ StoredNamespace = "prod"

\* C2: after a successful Refine with the all-namespaces flag true, the
\* active namespace is the all-namespaces sentinel, whatever the namespace
\* flag and the persisted namespace are.
C2_AllNamespacesWins ==
    (Refined /\ AllNamespacesAsked)
    => HasActive /\ StoredNamespace = NamespaceAll

C2_Witness ==
    /\ Refined
    /\ AllNamespacesAsked
    /\ NamespaceFlag = <<"prod">>
    /\ Active \in DOMAIN ContextsBefore
    /\ ContextsBefore[Active].Namespace.Active = "staging"
    /\ StoredNamespace = NamespaceAll

\* C3: after a successful Refine the committed namespace is never empty;
\* with no all-namespaces flag, no namespace flag and an empty persisted
\* namespace it is the default namespace.
C3_NeverEmpty ==
    Refined
    => /\ HasActive
       /\ StoredNamespace # ""
       /\ (/\ ~AllNamespacesAsked
           /\ ~NamespaceFlagGiven
           /\ Active \in DOMAIN ContextsBefore
           /\ ContextsBefore[Active].Namespace.Active = "")
          => StoredNamespace = DefaultNamespace

C3_Witness ==
    /\ Refined
    /\ ~AllNamespacesAsked
    /\ ~NamespaceFlagGiven
    /\ Active \in DOMAIN ContextsBefore
    /\ ContextsBefore[Active].Namespace.Active = ""
    /\ StoredNamespace = DefaultNamespace

\* C4: a context flag that is set and non-empty is the context Refine
\* activates, and the connection is not asked; otherwise the connection's
\* current context is activated, and if the connection answers with an
\* error, Refine returns that error.
C4_ContextResolution ==
    last.op = "Refine"
    => IF ContextFlagGiven
       THEN /\ ~last.aux.consulted
            /\ last.arg.conf = Nil
            /\ last.aux.steps # <<>>
            /\ Len(last.aux.steps) >= 2 => Active = ContextFlag[1]
       ELSE /\ last.aux.consulted
            /\ last.arg.conf[1].err # NoErr
               => last.err = last.arg.conf[1].err /\ last.aux.steps = <<>>
            /\ (last.arg.conf[1].err = NoErr /\ Len(last.aux.steps) >= 2)
               => Active = last.arg.conf[1].name

\* an empty, but set, context flag: the connection answers "dev"
C4_Witness ==
    /\ Refined
    /\ ContextFlag = <<"">>
    /\ last.arg.conf = <<[name |-> "dev", err |-> NoErr]>>
    /\ ActiveBefore = "prod"
    /\ Active = "dev"

----------------------------------------------------------------------------
(* Activation and the accessors *)

\* C5: when SetCurrentContext(n), n not empty, returns without error,
\* ActiveContextName() is n and CurrentContext() is the record of n,
\* without error.
C5_ActivateThenName ==
    (last.op = "SetCurrentContext" /\ last.arg # "" /\ last.err = NoErr)
    => /\ ActiveContextName(c) = last.arg
       /\ last.arg \in DOMAIN Contexts
       /\ CurrentContext(c) = [ct |-> <<Contexts[last.arg]>>, err |-> NoErr]

\* a switch from one context to another
C5_Witness ==
    /\ last.op = "SetCurrentContext"
    /\ last.err = NoErr
    /\ last.arg = "prod"
    /\ ActiveBefore = "dev"
    /\ ActiveContextName(c) = "prod"

----------------------------------------------------------------------------
(* The one-shot manual command *)

ManualBefore == last.before.c.K9s.manualCommand
ManualPending == c.K9s.manualCommand # Nil /\ c.K9s.manualCommand[1] # ""

\* C7: with an active context and a non-empty manual command pending,
\* ActiveView() returns the command and clears it; any other ActiveView()
\* call with an active context returns the stored view; the command is
\* returned at most once, and once returned it is pending no more.
C7_ManualCommandOnce ==
    /\ reads <= 1
    /\ reads = 1 => ~ManualPending
    /\ (last.op = "ActiveView" /\ HasActive)
       => IF ManualBefore # Nil /\ ManualBefore[1] # ""
          THEN /\ last.ret = ManualBefore[1]
               /\ last.aux.manual
               /\ c.K9s.manualCommand = <<"">>
               /\ reads = 1
          ELSE /\ last.ret = Contexts[Active].View.Active
               /\ ~last.aux.manual

\* a later call: the command was returned before, a view was stored since
C7_Witness ==
    /\ last.op = "ActiveView"
    /\ HasActive
    /\ reads = 1
    /\ ManualBefore = <<"">>
    /\ last.ret = "svc"

----------------------------------------------------------------------------
(* Save and Load *)

Saved == last.op \in {"Save", "SaveFile"} /\ last.err = NoErr

\* a freshly constructed document, and what Load makes of it from the file
\* that has just been saved
Fresh == [K9s |-> NewK9s(Nil), conn |-> Nil]
Reloaded == Load(Fresh, fs.files, last.arg, NoErr)

\* C8, as claimed: Save, then Load into a fresh document, gives a document
\* whose ActiveContextName() and ActiveNamespace() are those before saving.
C8_RoundTrip ==
    (Saved /\ HasActive)
    => /\ Reloaded.err = NoErr
       /\ ActiveContextName(Reloaded.cfg) = Active
       /\ ActiveNamespace(Reloaded.cfg) = StoredNamespace

\* C8, amended: Save, then Load into a fresh document, succeeds and gives a
\* document with no active context: ActiveContextName() is empty and
\* ActiveNamespace() is the default namespace, whatever was active when
\* the document was saved.
C8_RoundTripLosesActive ==
    (Saved /\ HasActive)
    => /\ Reloaded.err = NoErr
       /\ ActiveContextName(Reloaded.cfg) = ""
       /\ CurrentContext(Reloaded.cfg).err = ErrNoActiveContext
       /\ ActiveNamespace(Reloaded.cfg) = DefaultNamespace

\* dev is active with namespace staging when the document is saved
C8_Witness ==
    /\ Saved
    /\ Active = "dev"
    /\ StoredNamespace = "staging"
    /\ ActiveContextName(Reloaded.cfg) = ""
    /\ ActiveNamespace(Reloaded.cfg) = DefaultNamespace

\* C9: a second Load of the same file leaves the document as the first
\* Load left it.
C9_LoadIdempotent ==
    (last.op = "Load" /\ last.err = NoErr)
    => LET again == Load(c, fs.files, last.arg, NoErr)
       IN again.err = NoErr /\ again.cfg = c

\* a Load that changed a record the document already held
C9_Witness ==
    /\ last.op = "Load"
    /\ last.err = NoErr
    /\ last.arg = ExternalFile
    /\ "prod" \in DOMAIN ContextsBefore
    /\ ContextsBefore["prod"] # Contexts["prod"]
    /\ Load(c, fs.files, last.arg, NoErr).cfg = c

----------------------------------------------------------------------------
(* The extension of a YAML file *)

Exists(path) == path \in DOMAIN fs.files
Extended == last.op = "YamlExtension"

\* the paths of YamlPaths that end in .yml or .yaml, and their stems
EndsInYaml(path) == path \in {CfgYml, CfgYaml, DotDirYml}
Stem(path) == IF path = DotDirYml THEN DotDir ELSE Cfg

----------------------------------------------------------------------------
(* The favorites: validated against the connection, alone and by Save *)

NextFav ==
    \/ CallLoad(ExternalFile, NoErr)
    \/ \E n \in CtxNames : CallSetCurrentContext(n)
    \/ \E conn \in Connections : CallSetConnection(conn)
    \/ CallValidateFavorites
    \/ CallFavNamespaces
    \/ \E env \in SaveEnvs : CallSave(env)
    \/ Return

SpecFav == Init /\ [][NextFav]_vars

Favorites(contexts) ==
    [n \in DOMAIN contexts |-> contexts[n].Namespace.Favorites]

\* C11: while the connection is nil (never set, or set to nil),
\* ValidateFavorites and the validation Save runs leave the favorites of
\* every context as they were and raise no error: ValidateFavorites
\* answers nothing, and a Save that fails fails after its validation, on
\* the registry, the directory or the file. After SetConnection(nil),
\* whatever the connection was, the two validations change no favorite.
C11_NilConnectionKeepsFavorites ==
    /\ (last.op \in {"ValidateFavorites", "Save"} /\ last.before.c.conn = Nil)
       => /\ Favorites(Contexts) = Favorites(ContextsBefore)
          /\ last.op = "ValidateFavorites" => last.err = NoErr
          /\ last.op = "Save"
             => /\ last.aux.steps[1] = "validate"
                /\ last.err \in {NoErr, ErrRegistry, ErrDir, ErrIO}
    /\ (last.op = "SetConnection" /\ last.arg = Nil)
       => /\ Favorites(ValidateFavorites(c).K9s.contexts) = Favorites(Contexts)
          /\ Favorites(Validate(c).K9s.contexts) = Favorites(Contexts)

C11_Witness ==
    /\ last.op \in {"ValidateFavorites", "Save"}
    /\ c.conn = Nil
    /\ last.before.c.conn = Nil
    /\ HasActive
    /\ Contexts[Active].Namespace.Favorites = <<"prod", "gone", "staging">>

----------------------------------------------------------------------------
(* Calls made without an active context *)

HasActiveBefore ==
    ActiveBefore # "" /\ ActiveBefore \in DOMAIN ContextsBefore

\* C12: without an active context SetActiveNamespace(ns) and
\* CurrentContext() answer the no-active-context error, CurrentContext
\* with no record, and SetActiveNamespace leaves the whole document as it
\* was.
C12_NoActiveContextError ==
    /\ (last.op = "SetActiveNamespace" /\ ~HasActiveBefore)
       => /\ last.err = ErrNoActiveContext
          /\ c = last.before.c
    /\ (last.op = "CurrentContext" /\ ~HasActiveBefore)
       => /\ last.err = ErrNoActiveContext
          /\ last.ret = Nil

\* SetActiveNamespace("staging") after a Reset that left records behind
C12_Witness ==
    /\ last.op = "SetActiveNamespace"
    /\ last.arg = "staging"
    /\ ~HasActiveBefore
    /\ DOMAIN ContextsBefore # {}
    /\ last.err = ErrNoActiveContext

----------------------------------------------------------------------------
(* Loads that fail *)

\* C13: a Load that fails, on a file that cannot be read or on bytes that
\* do not decode, answers that error and changes no field of the live
\* document: nothing is merged and no default logger is built. The files
\* stay as they were.
C13_FailedLoadChangesNothing ==
    (last.op = "Load" /\ last.err # NoErr)
    => /\ c = last.before.c
       /\ fs = last.before.fs
       /\ last.err \in {ErrIO, ErrDecode}
       /\ last.arg \notin DOMAIN fs.files => last.err = ErrIO
       /\ last.err = ErrDecode
          => /\ last.arg \in DOMAIN fs.files
             /\ fs.files[last.arg].kind # "yaml"

\* the file that is no document, loaded into a document that has contexts
\* and no logger yet
C13_Witness ==
    /\ last.op = "Load"
    /\ last.arg = BrokenFile
    /\ last.err = ErrDecode
    /\ c.K9s.Logger = Nil
    /\ DOMAIN Contexts # {}

----------------------------------------------------------------------------
(* The order of the steps of Save *)

SaveSteps == <<"validate", "registry", "mkdir", "write">>
ConfigDir == Dir(AppConfigFile)

\* C14: Save validates first, then saves the registry, then writes the
\* configuration file. The steps it took are a beginning of validate,
\* registry, mkdir, write and the document is the validated one whatever
\* happens later; when the registry's save fails Save answers that error
\* and neither file nor directory is touched; the file changes only with
\* its directory ensured, a failed mkdir leaves the files as they were,
\* and what a successful Save wrote is the validated document.
C14_SaveOrder ==
    (last.op = "Save")
    => /\ \E i \in 1..4 : last.aux.steps = SubSeq(SaveSteps, 1, i)
       /\ c = Validate(last.before.c)
       /\ last.err = ErrRegistry
          => last.aux.steps = <<"validate">> /\ fs = last.before.fs
       /\ last.err = ErrDir
          => last.aux.steps = <<"validate", "registry">>
             /\ fs = last.before.fs
       /\ fs.files # last.before.fs.files => ConfigDir \in fs.dirs
       /\ last.err = NoErr
          => /\ last.aux.steps = SaveSteps
             /\ ConfigDir \in fs.dirs
             /\ AppConfigFile \in DOMAIN fs.files
             /\ fs.files[AppConfigFile] = Marshal(c)

\* the registry's save fails after validation has dropped a favorite: the
\* document is the validated one and there is still no file
C14_Witness ==
    /\ last.op = "Save"
    /\ last.err = ErrRegistry
    /\ c # last.before.c
    /\ AppConfigFile \notin DOMAIN fs.files
    /\ ConfigDir \notin fs.dirs

----------------------------------------------------------------------------
(* The records of the contexts: activated, changed, reset, dumped *)

NextContexts ==
    \/ \E n \in CtxNames \cup {""} : CallSetCurrentContext(n)
    \/ \E e \in {NoErr, ErrSettings} : CallSetActiveNamespace("staging", e)
    \/ \E v \in Views : CallSetActiveView(v)
    \/ CallActiveNamespace
    \/ CallActiveView
    \/ CallCurrentContext
    \/ CallActiveContextName
    \/ CallReset
    \/ CallDump
    \/ Return

SpecContexts == Init /\ [][NextContexts]_vars

\* C15: Reset clears the active pointer and deletes no record. After it
\* CurrentContext() fails with the no-active-context error and
\* ActiveContextName() names no context; every record is there with the
\* namespace and view it had; and activating any of them again succeeds,
\* changes no record and makes ActiveNamespace() its stored namespace.
C15_ResetKeepsRecords ==
    /\ (last.op = "Reset")
       => /\ CurrentContext(c).err = ErrNoActiveContext
          /\ ActiveContextName(c) \notin DOMAIN Contexts
          /\ Contexts = ContextsBefore
          /\ \A n \in DOMAIN ContextsBefore :
                LET r == SetCurrentContext(c, n)
                IN /\ r.err = NoErr
                   /\ r.cfg.K9s.contexts = ContextsBefore
                   /\ ActiveNamespace(r.cfg)
                          = ContextsBefore[n].Namespace.Active
    /\ (last.op = "SetCurrentContext" /\ ~HasActiveBefore
          /\ last.arg \in DOMAIN ContextsBefore)
       => /\ Contexts = ContextsBefore
          /\ ActiveNamespace(c) = ContextsBefore[last.arg].Namespace.Active

\* Reset with dev active, its namespace staging and its view svc
C15_Witness ==
    /\ last.op = "Reset"
    /\ ActiveBefore = "dev"
    /\ Active = ""
    /\ "dev" \in DOMAIN Contexts
    /\ Contexts["dev"].Namespace.Active = "staging"
    /\ Contexts["dev"].View.Active = "svc"

----------------------------------------------------------------------------
(* Refine giving up *)

RefineSteps == <<"resolve", "activate", "namespace", "commit", "mkdir">>
Namespaces(contexts) == [n \in DOMAIN contexts |-> contexts[n].Namespace]

\* C16: Refine resolves the context, activates it, resolves the namespace,
\* commits it and ensures the screen dump directory, in this order, and
\* gives up at the first step that fails, answering its error. The steps
\* taken are a beginning of that list, all five exactly when Refine
\* succeeds. When the resolution or the activation fails the document is
\* unchanged; at any failure before the mkdir no context that was there
\* has its namespace changed and no directory is created; a failed mkdir
\* is answered too, with the namespace committed and no directory created.
C16_RefineAborts ==
    (last.op = "Refine")
    => /\ \E i \in 0..5 : last.aux.steps = SubSeq(RefineSteps, 1, i)
       /\ last.err = NoErr <=> last.aux.steps = RefineSteps
       /\ last.err = NoErr => ScreenDumpDir \in fs.dirs
       /\ last.err # NoErr => fs = last.before.fs
       /\ Len(last.aux.steps) = 0 => last.err = ErrCurrentContext
       /\ Len(last.aux.steps) = 1 => last.err = ErrNotFound
       /\ Len(last.aux.steps) <= 1 => c = last.before.c
       /\ Len(last.aux.steps) = 3 => last.err = ErrSettings
       /\ Len(last.aux.steps) \in 2..3
          => \A n \in DOMAIN ContextsBefore :
                Contexts[n].Namespace = ContextsBefore[n].Namespace
       /\ Len(last.aux.steps) = 4
          => /\ last.err = ErrDir
             /\ HasActive
             /\ DOMAIN ContextsBefore \subseteq DOMAIN Contexts

\* the commit fails after prod was activated in place of dev: prod is
\* active, no namespace has changed, there is no screen dump directory
C16_Witness ==
    /\ last.op = "Refine"
    /\ last.err = ErrSettings
    /\ ActiveBefore = "dev"
    /\ Active = "prod"
    /\ ContextsBefore["dev"].Namespace.Active = "staging"
    /\ Contexts["dev"].Namespace.Active = "staging"
    /\ ScreenDumpDir \notin fs.dirs

----------------------------------------------------------------------------
(* Every operation on the document, for what moves the active pointer *)

NextAll ==
    \/ \E ctx \in {Nil, <<"prod">>}, conf \in CurrentContextNames :
          CallRefine([Context |-> ctx, Namespace |-> Nil], Nil, conf,
                     [setErr |-> NoErr, dirErr |-> NoErr])
    \/ \E n \in {"dev", "prod", ""} : CallSetCurrentContext(n)
    \/ CallSetActiveNamespace("staging", NoErr)
    \/ \E v \in Views : CallSetActiveView(v)
    \/ CallActiveView
    \/ CallActiveNamespace
    \/ CallFavNamespaces
    \/ CallValidateFavorites
    \/ \E conn \in LiveConnections : CallSetConnection(conn)
    \/ \E path \in {ExternalFile, BrokenFile} : CallLoad(path, NoErr)
    \/ \E r \in {NoErr, ErrRegistry} :
          CallSave([regErr |-> r, dirErr |-> NoErr, writeErr |-> NoErr])
    \/ CallReset
    \/ Return

SpecAll == Init /\ [][NextAll]_vars

Activations == {"SetCurrentContext", "Refine"}

\* C17: the active pointer is changed only through activation. A call that
\* changes what ActiveContextName() answers is SetCurrentContext or Refine;
\* every other call (SetActiveNamespace, SetActiveView, ActiveView,
\* ActiveNamespace, FavNamespaces, ValidateFavorites, SetConnection, Load,
\* Save, Reset) leaves it as it was; and a pointer that is set is set
\* after every call, so that it is never absent again once an activation
\* has succeeded.
C17_PointerOnlyByActivation ==
    /\ (last.op \notin Activations \cup {"idle"}) => Active = ActiveBefore
    /\ (last.op # "idle" /\ ActiveBefore # "") => Active # ""

\* C17, as the program has it: the pointer is changed by activation and by
\* Reset only. Reset clears it; every other call that is no activation
\* leaves it as it was; an activation that fails leaves it too, one that
\* succeeds makes it the name of a record; and a pointer that is set is
\* set after every call but Reset.
C17_PointerByActivationOrReset ==
    /\ (last.op \notin Activations \cup {"idle", "Reset"})
       => Active = ActiveBefore
    /\ (last.op = "Reset") => Active = ""
    /\ (last.op \in Activations)
       => /\ Active # ActiveBefore => last.err = NoErr \/ last.op = "Refine"
          /\ Active # ActiveBefore => HasActive
          /\ (last.op = "SetCurrentContext" /\ last.arg # ""
                /\ last.err = NoErr)
             => Active = last.arg
    /\ (last.op \notin {"idle", "Reset"} /\ ActiveBefore # "")
       => Active # ""

\* Reset with prod active, its document saved: the pointer is absent
\* again, the records are there
C17_Witness ==
    /\ last.op = "Reset"
    /\ ActiveBefore = "prod"
    /\ Active = ""
    /\ "prod" \in DOMAIN Contexts
    /\ AppConfigFile \in DOMAIN fs.files

----------------------------------------------------------------------------
(* The record of a context, from its first activation on *)

Activated == last.op = "SetCurrentContext" /\ last.arg # "" /\ last.err = NoErr

\* C18: a context has no record until it is first activated and has one
\* from then on. No call takes a record away, and an activation adds at
\* most the record of the context it names, a new one with the default
\* namespace and view. Activating a context leaves every record that was
\* there as it was, so that activating B after A keeps A's record, and
\* activating A again answers the namespace and the view last stored for
\* A. SetActiveNamespace and SetActiveView change no record but that of
\* the active context, and of it the namespace, respectively the view.
C18_ContextRecords ==
    /\ (last.op # "idle") => DOMAIN ContextsBefore \subseteq DOMAIN Contexts
    /\ (last.op = "SetCurrentContext")
       => \A n \in DOMAIN ContextsBefore : Contexts[n] = ContextsBefore[n]
    /\ Activated
       => /\ DOMAIN Contexts = DOMAIN ContextsBefore \cup {last.arg}
          /\ last.arg \notin DOMAIN ContextsBefore
             => Contexts[last.arg] = NewContext
          /\ last.arg \in DOMAIN ContextsBefore
             => /\ ActiveNamespace(c)
                       = ContextsBefore[last.arg].Namespace.Active
                /\ ActiveView(c).ret = ContextsBefore[last.arg].View.Active
    /\ (last.op \in {"SetActiveNamespace", "SetActiveView"})
       => /\ DOMAIN Contexts = DOMAIN ContextsBefore
          /\ Active = ActiveBefore
          /\ \A n \in DOMAIN Contexts \ {Active} :
                Contexts[n] = ContextsBefore[n]
    /\ (last.op = "SetActiveNamespace" /\ HasActive)
       => /\ Contexts[Active].View = ContextsBefore[Active].View
          /\ last.err = NoErr => StoredNamespace = last.arg
    /\ (last.op = "SetActiveView" /\ HasActive)
       => /\ Contexts[Active].Namespace = ContextsBefore[Active].Namespace
          /\ Contexts[Active].View.Active = last.arg

\* back to dev from prod: dev's namespace and view are those stored for
\* it, prod's record is as it was
C18_Witness ==
    /\ Activated
    /\ last.arg = "dev"
    /\ ActiveBefore = "prod"
    /\ {"dev", "prod"} \subseteq DOMAIN ContextsBefore
    /\ ContextsBefore["dev"].Namespace.Active = "staging"
    /\ ContextsBefore["dev"].View.Active = "svc"
    /\ ContextsBefore["prod"] = NewContext
    /\ ActiveNamespace(c) = "staging"
    /\ ActiveView(c).ret = "svc"

----------------------------------------------------------------------------
(* The views without an active context *)

ManualPendingBefore == ManualBefore # Nil /\ ManualBefore[1] # ""

\* C19: without an active context ActiveView() answers the default view
\* and changes nothing, a pending manual command included, and
\* SetActiveView(v) changes nothing. No call but an ActiveView() made with
\* an active context changes the manual command, so that the command is
\* still there for the first ActiveView() after an activation: whichever
\* context is activated next, ActiveView() then answers the command.
C19_ViewsWithoutContext ==
    /\ (last.op = "ActiveView" /\ ~HasActiveBefore)
       => /\ last.ret = DefaultView
          /\ ~last.aux.manual
          /\ c = last.before.c
          /\ reads = 0 \/ ~ManualPending
          /\ ManualPending
             => \A n \in CtxNames :
                   LET v == ActiveView(SetCurrentContext(c, n).cfg)
                   IN v.ret = c.K9s.manualCommand[1] /\ v.manual
    /\ (last.op = "SetActiveView" /\ ~HasActiveBefore) => c = last.before.c
    /\ (last.op # "idle" /\ ~(last.op = "ActiveView" /\ HasActiveBefore))
       => c.K9s.manualCommand = ManualBefore
    /\ (last.op = "ActiveView" /\ HasActiveBefore /\ ManualPendingBefore)
       => last.ret = ManualBefore[1]

\* ActiveView() after a Reset, the command of the command line not yet
\* looked at
C19_Witness ==
    /\ last.op = "ActiveView"
    /\ ~HasActiveBefore
    /\ DOMAIN Contexts # {}
    /\ last.ret = DefaultView
    /\ c.K9s.manualCommand = <<"dp">>
    /\ reads = 0

----------------------------------------------------------------------------
(* Dump *)

\* C20: Dump never reads a field of a context record that is not there:
\* in every state, those without an active context included, Dump ends
\* without a panic and leaves the document as it was.
C20_DumpNeverPanics ==
    (last.op = "Dump")
    => /\ last.err = NoErr
       /\ c = last.before.c

====
